---- MODULE Spec2Model ----
(***************************************************************************)
(* The payment endpoint of examples/my_project/services/payments:          *)
(* the net/http handler Processor, run by the Go HTTP server once per      *)
(* request, each run on a goroutine of its own.  A run decodes the body    *)
(* into a PaymentRequest, prints one line to the process's standard        *)
(* output and writes a PaymentResponse.  The handler keeps no package      *)
(* level variable: standard output is the only thing two runs share.       *)
(***************************************************************************)
EXTENDS Integers, Sequences, FiniteSets, TLC

\* Number of requests the server receives in one behaviour.
MaxReq == 3

Requests == 1..MaxReq

\* http.StatusOK and http.StatusBadRequest (net/http).
StatusOK == 200
StatusBadRequest == 400

----------------------------------------------------------------------------
(* JSON request bodies.  A body is either no JSON text at all or a JSON    *)
(* object; a field of the object is absent or carries a JSON value of some *)
(* type.  Amounts are counted in cents, so 4250 is the JSON number 42.50.  *)

Absent == [t |-> "absent", s |-> "", n |-> 0]
JStr(s) == [t |-> "string", s |-> s, n |-> 0]
JNum(n) == [t |-> "number", s |-> "", n |-> n]

NotJson == [kind |-> "invalid", order_id |-> Absent, amount |-> Absent]
\* r.Body before the handler has read it.
Unread == [kind |-> "unread", order_id |-> Absent, amount |-> Absent]
JObject(o, a) == [kind |-> "object", order_id |-> o, amount |-> a]

Bodies ==
    { NotJson,
      JObject(JNum(7), JNum(1000)),
      JObject(Absent, Absent),
      JObject(JStr("ord-1"), JNum(-500)),
      JObject(JStr("ord-1"), JNum(1000)),
      JObject(JStr("ord-1"), JNum(4250)),
      JObject(JStr("ord-2"), JNum(1000)) }

\* type PaymentRequest struct { OrderID string; Amount float64 }
PaymentRequest(o, a) == [OrderID |-> o, Amount |-> a]

\* var req PaymentRequest: the zero value.
ZeroRequest == PaymentRequest("", 0)

\* type PaymentResponse struct { Status string; Message string }
PaymentResponse(s, m) == [Status |-> s, Message |-> m]

\* A decoder that also validates the fields: a variant of DecodeFails.
DecodeFails_Validating(b) ==
    \/ b.kind # "object"
    \/ b.order_id.t # "string"
    \/ b.amount.t # "number"
    \/ b.order_id.s = ""
    \/ b.amount.n <= 0

\* Whether json.NewDecoder(r.Body).Decode(&req) returns an error: the body
\* is not a JSON value, or a field's JSON type does not fit the Go field.
\* An absent field is no error.
DecodeFails(b) ==
    \/ b.kind # "object"
    \/ b.order_id.t \notin {"absent", "string"}
    \/ b.amount.t \notin {"absent", "number"}

\* The struct Decode leaves in req when it returns nil: fields present in
\* the object are stored, the others keep their zero value.
Decoded(b) ==
    PaymentRequest(
        IF b.order_id.t = "string" THEN b.order_id.s ELSE ZeroRequest.OrderID,
        IF b.amount.t = "number" THEN b.amount.n ELSE ZeroRequest.Amount)

\* fmt's %.2f of an amount: sign, whole part, two decimals.
Abs(n) == IF n < 0 THEN -n ELSE n
Fmt2f(a) == [neg |-> a < 0, whole |-> Abs(a) \div 100, frac |-> Abs(a) % 100]

\* The line fmt.Printf writes for a request.
LogLine(r) == [order |-> r.OrderID, amount |-> Fmt2f(r.Amount)]

\* An encoder for a struct without json tags: a variant of Encode.
Encode_Untagged(resp) ==
    [kind |-> "json",
     fields |-> << <<"Status", resp.Status>>, <<"Message", resp.Message>> >>,
     text |-> ""]

\* json.NewEncoder(w).Encode(resp): the struct's fields under their json
\* tags, in declaration order.
Encode(resp) ==
    [kind |-> "json",
     fields |-> << <<"status", resp.Status>>, <<"message", resp.Message>> >>,
     text |-> ""]

\* The body http.Error writes.
TextBody(t) == [kind |-> "text", fields |-> << >>, text |-> t]

NoReply == [code |-> 0, ctype |-> "", body |-> TextBody("")]

\* The text written with fmt.Fprintln and no WriteHeader, as NotifyHandler
\* writes its reply: a variant of ErrorReply.
ErrorReply_NoStatus ==
    [code |-> StatusOK,
     ctype |-> "text/plain; charset=utf-8",
     body |-> TextBody("Invalid request\n")]

\* http.Error(w, "Invalid request", http.StatusBadRequest)
ErrorReply ==
    [code |-> StatusBadRequest,
     ctype |-> "text/plain; charset=utf-8",
     body |-> TextBody("Invalid request\n")]

----------------------------------------------------------------------------
VARIABLES
    pc,      \* pc[i]: where the handler run of request i stands
    body,    \* body[i]: the request body Decode read for request i
    req,     \* req[i]: the local variable req of the run
    reply,   \* reply[i]: what the run wrote to its ResponseWriter
    stdout,  \* the lines printed to standard output, in order
    before   \* before[i]: the requests already answered when i started

vars == <<pc, body, req, reply, stdout, before>>

Done == {i \in Requests : pc[i] = "done"}

\* A response that reports an order already answered with success as a
\* duplicate: a variant of ProcessorResponse.
ProcessorResponse_Ledger(i) ==
    IF \E j \in Done \ {i} :
          /\ reply[j].code = StatusOK
          /\ req[j].OrderID = req[i].OrderID
    THEN PaymentResponse("duplicate", "Order already processed")
    ELSE PaymentResponse("success", "Payment processed")

\* A response that echoes the order in its message: a variant of
\* ProcessorResponse.
ProcessorResponse_Echo(i) == PaymentResponse("success", req[i].OrderID)

\* resp := PaymentResponse{Status: "success", Message: "Payment processed"}
ProcessorResponse(i) == PaymentResponse("success", "Payment processed")

\* Content-Type header set, then Encode writes the body with the implicit 200.
SuccessReply(i) ==
    [code |-> StatusOK,
     ctype |-> "application/json",
     body |-> Encode(ProcessorResponse(i))]

Init ==
    /\ pc = [i \in Requests |-> "idle"]
    /\ body = [i \in Requests |-> Unread]
    /\ req = [i \in Requests |-> ZeroRequest]
    /\ reply = [i \in Requests |-> NoReply]
    /\ stdout = << >>
    /\ before = [i \in Requests |-> {}]

\* The server starts Processor for request i on a new goroutine.  Requests
\* are numbered in the order they start.
Receive(i) ==
    /\ pc[i] = "idle"
    /\ \A j \in Requests : j < i => pc[j] # "idle"
    /\ pc' = [pc EXCEPT ![i] = "decode"]
    /\ before' = [before EXCEPT ![i] = Done]
    /\ UNCHANGED <<body, req, reply, stdout>>

\* An error path that prints the request before replying: a variant of
\* DecodeError.
DecodeError_Logging(i, b) ==
    /\ pc[i] = "decode"
    /\ DecodeFails(b)
    /\ body' = [body EXCEPT ![i] = b]
    /\ stdout' = Append(stdout, LogLine(req[i]))
    /\ reply' = [reply EXCEPT ![i] = ErrorReply]
    /\ pc' = [pc EXCEPT ![i] = "done"]
    /\ UNCHANGED <<req, before>>

\* Decode reads body b off r.Body and returns an error: http.Error and
\* return.
DecodeError(i, b) ==
    /\ pc[i] = "decode"
    /\ DecodeFails(b)
    /\ body' = [body EXCEPT ![i] = b]
    /\ reply' = [reply EXCEPT ![i] = ErrorReply]
    /\ pc' = [pc EXCEPT ![i] = "done"]
    /\ UNCHANGED <<req, stdout, before>>

\* Decode reads body b off r.Body, returns nil and has filled req.
DecodeOk(i, b) ==
    /\ pc[i] = "decode"
    /\ ~DecodeFails(b)
    /\ body' = [body EXCEPT ![i] = b]
    /\ req' = [req EXCEPT ![i] = Decoded(b)]
    /\ pc' = [pc EXCEPT ![i] = "print"]
    /\ UNCHANGED <<reply, stdout, before>>

\* fmt.Printf("Processing payment for order %s: $%.2f\n", ...)
Printf(i) ==
    /\ pc[i] = "print"
    /\ stdout' = Append(stdout, LogLine(req[i]))
    /\ pc' = [pc EXCEPT ![i] = "respond"]
    /\ UNCHANGED <<body, req, reply, before>>

\* Build resp, set the Content-Type header, encode resp to w.
Respond(i) ==
    /\ pc[i] = "respond"
    /\ reply' = [reply EXCEPT ![i] = SuccessReply(i)]
    /\ pc' = [pc EXCEPT ![i] = "done"]
    /\ UNCHANGED <<body, req, stdout, before>>

Next ==
    \/ \E i \in Requests : Receive(i)
    \/ \E i \in Requests, b \in Bodies : DecodeError(i, b)
    \/ \E i \in Requests, b \in Bodies : DecodeOk(i, b)
    \/ \E i \in Requests : Printf(i)
    \/ \E i \in Requests : Respond(i)

Spec == Init /\ [][Next]_vars

----------------------------------------------------------------------------
(* What a client reads off a reply.                                        *)

\* The value of field k of a JSON reply body, "" when the body has none.
Field(b, k) ==
    LET at == {n \in 1..Len(b.fields) : b.fields[n][1] = k}
    IN  IF at = {} THEN "" ELSE b.fields[CHOOSE n \in at : TRUE][2]

Keys(b) == [n \in 1..Len(b.fields) |-> b.fields[n][1]]

Outcome(i) == Field(reply[i].body, "status")
Message(i) == Field(reply[i].body, "message")

\* The body of request i carries a non-empty order_id and an amount > 0.
Valid(i) ==
    /\ body[i].kind = "object"
    /\ body[i].order_id.t = "string" /\ body[i].order_id.s # ""
    /\ body[i].amount.t = "number" /\ body[i].amount.n > 0

\* The body of request i decodes, and its order_id is empty or its amount
\* is not positive.
InvalidField(i) ==
    /\ body[i].kind = "object"
    /\ body[i].order_id.t \in {"absent", "string"}
    /\ body[i].amount.t \in {"absent", "number"}
    /\ \/ Decoded(body[i]).OrderID = ""
       \/ Decoded(body[i]).Amount <= 0

OrderOf(i) == Decoded(body[i]).OrderID

\* Request i is the first to arrive with its order_id.
First(i) ==
    \A j \in Requests : j < i => body[j].kind # "object" \/ OrderOf(j) # OrderOf(i)

\* The reply is the 200 JSON reply {"status": "success", "message":
\* "Payment processed"}, sent as application/json.
IsSuccess(i) ==
    reply[i] =
        [code |-> 200,
         ctype |-> "application/json",
         body |-> [kind |-> "json",
                   fields |-> << <<"status", "success">>,
                                 <<"message", "Payment processed">> >>,
                   text |-> ""]]

\* The reply is the 400 plain-text reply "Invalid request".
IsInvalidRequest(i) ==
    reply[i] =
        [code |-> 400,
         ctype |-> "text/plain; charset=utf-8",
         body |-> [kind |-> "text", fields |-> << >>, text |-> "Invalid request\n"]]

\* The non-empty sets of answered valid requests that carry one order_id and
\* ran concurrently: none had been answered when another arrived.
ConcurrentSameOrder ==
    {S \in SUBSET Done :
        /\ S # {}
        /\ \A i \in S : Valid(i)
        /\ \A i, j \in S : OrderOf(i) = OrderOf(j) /\ j \notin before[i]}

----------------------------------------------------------------------------
\* C1 as stated: of N concurrent calls with one valid order_id, exactly one
\* returns accepted and the other N-1 return duplicate.
C1_ExactlyOneAccepted ==
    \A S \in ConcurrentSameOrder :
        /\ Cardinality({i \in S : Outcome(i) = "accepted"}) = 1
        /\ Cardinality({i \in S : Outcome(i) = "duplicate"}) = Cardinality(S) - 1

\* C1 amended: of N concurrent calls with one valid order_id, every one gets
\* the 200 success reply "Payment processed"; none is reported a duplicate.
C1_AllConcurrentSucceed ==
    \A S \in ConcurrentSameOrder :
        \A i \in S : IsSuccess(i) /\ Outcome(i) # "duplicate"

C1_Witness ==
    \E S \in ConcurrentSameOrder : Cardinality(S) >= 2

\* C2 as stated: the first call for a valid order_id returns the outcome
\* accepted with message "Payment processed", whatever came before.
C2_FirstIsAccepted ==
    \A i \in Done :
        Valid(i) /\ First(i) =>
            Outcome(i) = "accepted" /\ Message(i) = "Payment processed"

\* C2 amended: the first call for a valid order_id returns HTTP 200 with
\* status "success" and message "Payment processed", whatever requests for
\* other order_ids came before it.
C2_FirstIsSuccess ==
    \A i \in Done :
        Valid(i) /\ First(i) =>
            /\ reply[i].code = 200
            /\ Outcome(i) = "success"
            /\ Message(i) = "Payment processed"

C2_Witness ==
    \E i \in Done :
        /\ Valid(i) /\ First(i)
        /\ \E j \in before[i] : Valid(j) /\ OrderOf(j) # OrderOf(i)

\* An earlier answered valid call with the order_id of i, whose reply was
\* the positive one.
EarlierAccepted(i) ==
    {j \in before[i] : Valid(j) /\ OrderOf(j) = OrderOf(i) /\ reply[j].code = 200}

\* C3 as stated: a valid call that comes after an accepted call with the
\* same order_id returns duplicate with message "Order already processed".
C3_LaterIsDuplicate ==
    \A i \in Done :
        Valid(i) /\ EarlierAccepted(i) # {} =>
            Outcome(i) = "duplicate" /\ Message(i) = "Order already processed"

\* C3 amended: a valid call that comes after an accepted call with the same
\* order_id gets the same 200 success reply "Payment processed" again,
\* whatever its amount and whatever happened in between.
C3_LaterIsSuccessAgain ==
    \A i \in Done :
        Valid(i) /\ EarlierAccepted(i) # {} =>
            /\ IsSuccess(i)
            /\ \A j \in EarlierAccepted(i) : reply[i] = reply[j]

C3_Witness ==
    \E i \in Done : \E j \in EarlierAccepted(i) :
        /\ Valid(i)
        /\ body[j].amount # body[i].amount
        /\ \E k \in before[i] : j \in before[k] /\ OrderOf(k) # OrderOf(i)

\* C4 as stated: a body that does not decode is answered rejected /
\* "MalformedPayload" / 400, and nothing the requests share is changed.
C4_MalformedIsRejectedJson ==
    \A i \in Done :
        DecodeFails(body[i]) =>
            /\ Outcome(i) = "rejected"
            /\ Message(i) = "MalformedPayload"
            /\ reply[i].code = 400

\* C4 amended: a body that does not decode is answered HTTP 400 with the
\* plain-text body "Invalid request", and the step that answers it changes
\* nothing the requests share (no line is printed).
C4_MalformedIsInvalidRequest ==
    /\ [](\A i \in Done : DecodeFails(body[i]) => IsInvalidRequest(i))
    /\ [][\A i \in Requests :
            pc[i] = "decode" /\ pc'[i] = "done" /\ DecodeFails(body'[i])
                => stdout' = stdout /\ req' = req]_vars

C4_Witness ==
    \E i, j \in Done :
        /\ body[i] = NotJson
        /\ body[j].kind = "object" /\ DecodeFails(body[j])
        /\ stdout # << >>

\* C5 as stated: a decodable body with an empty order_id or an amount <= 0
\* is answered rejected with HTTP 400 and a message naming the field.
C5_InvalidFieldIsRejected ==
    \A i \in Done :
        InvalidField(i) =>
            /\ Outcome(i) = "rejected"
            /\ reply[i].code = 400
            /\ Message(i) \in {"InvalidField: order_id", "InvalidField: amount"}

\* C5 amended: a decodable body with an empty order_id or an amount <= 0 is
\* not validated: it is printed and answered with the 200 success reply, and
\* a later valid request with that order_id gets the success reply too.
C5_InvalidFieldIsSuccess ==
    \A i \in Done :
        InvalidField(i) =>
            /\ IsSuccess(i)
            /\ \E n \in 1..Len(stdout) : stdout[n] = LogLine(Decoded(body[i]))
            /\ \A j \in Done :
                 Valid(j) /\ i \in before[j] /\ OrderOf(j) = OrderOf(i)
                     => IsSuccess(j)

C5_Witness ==
    /\ \E i \in Done : InvalidField(i) /\ OrderOf(i) = ""
    /\ \E i, j \in Done :
          /\ InvalidField(i) /\ OrderOf(i) # ""
          /\ Valid(j) /\ i \in before[j] /\ OrderOf(j) = OrderOf(i)

\* C6 as stated: every reply carries one of the outcomes accepted,
\* duplicate, rejected, and its status code is 200 for the first two and
\* 400 for the third.
C6_CodeByTriState ==
    \A i \in Done :
        \/ Outcome(i) \in {"accepted", "duplicate"} /\ reply[i].code = 200
        \/ Outcome(i) = "rejected" /\ reply[i].code = 400

\* C6 amended: the status code of every reply is a function of the outcome
\* only: 200 when the reply is the "success" JSON, 400 when the request is
\* refused as undecodable; no request produces another status code.
C6_CodeByOutcome ==
    \A i \in Done :
        /\ reply[i].code \in {200, 400}
        /\ reply[i].code = 200 <=> Outcome(i) = "success"
        /\ reply[i].code = 400 <=> reply[i].body.kind = "text"
        /\ reply[i].code = 400 <=> DecodeFails(body[i])

C6_Witness ==
    \E i, j \in Done : reply[i].code = 200 /\ reply[j].code = 400

\* C7 as stated: every reply is a JSON body {status, message} sent as
\* application/json, with status among accepted, duplicate, rejected.
C7_AlwaysTriStateJson ==
    \A i \in Done :
        /\ reply[i].ctype = "application/json"
        /\ reply[i].body.kind = "json"
        /\ Keys(reply[i].body) = <<"status", "message">>
        /\ Outcome(i) \in {"accepted", "duplicate", "rejected"}

\* C7 amended: the reply to a decodable body is a JSON body {status,
\* message} sent as application/json whose status is always "success"; the
\* reply to an undecodable body is plain text sent as text/plain.
C7_JsonOnSuccessOnly ==
    \A i \in Done :
        IF DecodeFails(body[i])
        THEN reply[i].ctype = "text/plain; charset=utf-8" /\ reply[i].body.kind = "text"
        ELSE /\ reply[i].ctype = "application/json"
             /\ reply[i].body.kind = "json"
             /\ Keys(reply[i].body) = <<"status", "message">>
             /\ Outcome(i) = "success"

C7_Witness ==
    \E i, j \in Done :
        /\ DecodeFails(body[i]) /\ reply[i].body.kind = "text"
        /\ ~DecodeFails(body[j]) /\ reply[j].body.kind = "json"

\* C10: Processor keeps no state between requests.  The reply depends only
\* on whether the request's own body decodes: any two answered requests
\* whose bodies both decode, or both fail to, have the same reply, whatever
\* was answered before them or ran beside them; a decodable body gets
\* "success" / "Payment processed", an undecodable one 400 "Invalid request";
\* a repeated order_id, an empty order_id and a non-positive amount get the
\* reply of a first valid request.
C10_Stateless ==
    /\ \A i, j \in Done :
          DecodeFails(body[i]) = DecodeFails(body[j]) => reply[i] = reply[j]
    /\ \A i \in Done :
          IF DecodeFails(body[i]) THEN IsInvalidRequest(i) ELSE IsSuccess(i)

C10_Witness ==
    \E f, r, e \in Done :
        /\ Valid(f) /\ First(f) /\ before[f] = {}
        /\ Valid(r) /\ f \in before[r] /\ OrderOf(r) = OrderOf(f)
        /\ InvalidField(e) /\ reply[e] = reply[f] /\ reply[r] = reply[f]

====
